---------------------------- MODULE Spec2Model ----------------------------
(***************************************************************************)
(* Model of ai_data_visualisation_agent.py: the "Analyze" request of the   *)
(* Streamlit application.  One request runs                                *)
(*   key check -> Sandbox() -> upload_dataset -> chat_with_llm             *)
(*             -> match_code_blocks -> code_interpret -> result rendering  *)
(* inside "with Sandbox(...) as code_interpreter:".                        *)
(*                                                                         *)
(* Text (the model reply, the extracted code) is a sequence of one-        *)
(* character strings, so that the regular expression of line 19 is         *)
(* evaluated character by character.  The text of a stream is a string.    *)
(*                                                                         *)
(* Requests run in threads of one process.  A step of the model is one     *)
(* blocking call, one effect on the page, or one read or write of the      *)
(* process-wide sys.stdout / sys.stderr; steps of different requests       *)
(* interleave freely.                                                      *)
(***************************************************************************)
EXTENDS Naturals, Sequences, FiniteSets, TLC

----------------------------------------------------------------------------
(* Bounds of the model *)

\* number of analyze requests that may be in flight together
NumReqs == 2
\* a model reply is a concatenation of at most MaxPieces text pieces
MaxPieces == 5
\* the sandbox returns at most MaxResults results for one run
MaxResults == 2

Reqs == 1..NumReqs

----------------------------------------------------------------------------
(* Text *)

\* the backtick character (a TLA+ string cannot hold one, so it is spelled out)
BT == "bt"
NL == "\n"
\* the literal prefix of the pattern: three backticks, python, newline
OpenFence == <<BT, BT, BT, "p", "y", "t", "h", "o", "n", NL>>
\* the literal suffix of the pattern: newline, three backticks
CloseFence == <<NL, BT, BT, BT>>
\* a bare fence: three backticks
Fence == <<BT, BT, BT>>

\* s[i..] starts with the literal lit
MatchesAt(s, lit, i) ==
    /\ i + Len(lit) - 1 <= Len(s)
    /\ SubSeq(s, i, i + Len(lit) - 1) = lit

NoMatch == [found |-> FALSE, whole |-> <<>>, group |-> <<>>]

\* a greedy variant of the group: the last closing literal ends it
RECURSIVE GreedyGroupFrom(_, _, _, _)
GreedyGroupFrom(s, at, start, k) ==
    IF k < start THEN NoMatch
    ELSE IF MatchesAt(s, CloseFence, k)
         THEN [found |-> TRUE,
               whole |-> SubSeq(s, at, k + Len(CloseFence) - 1),
               group |-> SubSeq(s, start, k - 1)]
         ELSE GreedyGroupFrom(s, at, start, k - 1)

GreedyGroup(s, at, start, k) == GreedyGroupFrom(s, at, start, Len(s))

\* the non-greedy group under re.DOTALL: it grows one character (any
\* character, newline included) at a time until the closing literal matches
\* at k.
RECURSIVE LazyGroup(_, _, _, _)
LazyGroup(s, at, start, k) ==
    IF k > Len(s) THEN NoMatch
    ELSE IF MatchesAt(s, CloseFence, k)
         THEN [found |-> TRUE,
               whole |-> SubSeq(s, at, k + Len(CloseFence) - 1),
               group |-> SubSeq(s, start, k - 1)]
         ELSE LazyGroup(s, at, start, k + 1)

\* the pattern tried at position i of s
MatchHere(s, i) ==
    IF MatchesAt(s, OpenFence, i)
    THEN LazyGroup(s, i, i + Len(OpenFence), i + Len(OpenFence))
    ELSE NoMatch

\* pattern.search: the match at the leftmost position that has one
RECURSIVE SearchFrom(_, _)
SearchFrom(s, i) ==
    IF i > Len(s) THEN NoMatch
    ELSE LET m == MatchHere(s, i)
         IN  IF m.found THEN m ELSE SearchFrom(s, i + 1)

pattern_search(s) == SearchFrom(s, 1)

\* a variant returning match.group(0), the fences included
match_code_blocks_group0(llm_response) ==
    LET match == pattern_search(llm_response)
    IN  IF match.found THEN match.whole ELSE <<>>

match_code_blocks(llm_response) ==
    LET match == pattern_search(llm_response)
    IN  IF match.found THEN match.group ELSE <<>>

\* Python truthiness of a str
Truthy(str) == str # <<>>

----------------------------------------------------------------------------
(* Inputs *)

\* a whole fenced block holding y
BlockY == OpenFence \o <<"y">> \o CloseFence

\* the pieces model replies are built from
Pieces == {OpenFence, CloseFence, Fence, <<NL>>, <<"x">>, BlockY}

RECURSIVE Concat(_)
Concat(ps) == IF ps = <<>> THEN <<>> ELSE Head(ps) \o Concat(Tail(ps))

SeqsUpTo(S, n) == UNION {[1..k -> S] : k \in 0..n}

\* every reply of at most MaxPieces pieces
AllReplies == {Concat(ps) : ps \in SeqsUpTo(Pieces, MaxPieces)}

\* one fenced block; no fence at all
OneBlockReply == Concat(<<OpenFence, <<"x">>, CloseFence>>)
NoFenceReply == <<"x", NL, "y">>
SampleReplies == {OneBlockReply, NoFenceReply}

\* session_state values of the two key fields
Keys == {"", "sk"}

\* A raw result of the sandbox, by the capabilities lines 172-184 probe:
\*   png     "absent" : no attribute png;  "empty" : png is None or "";
\*           "valid"  : base64 of a PNG;   "corrupt" : a non-empty payload
\*                      that b64decode or Image.open rejects
\*   figure  hasattr(result, 'figure')
\*   show    hasattr(result, 'show')
\*   frame   isinstance(result, (pd.DataFrame, pd.Series))
RawResults ==
    [png : {"absent", "empty", "valid", "corrupt"},
     figure : BOOLEAN, show : BOOLEAN, frame : BOOLEAN]

Raw(p, f, s, t) == [png |-> p, figure |-> f, show |-> s, frame |-> t]

AllResultSeqs == SeqsUpTo(RawResults, MaxResults)

\* executions of the concurrent requests: a table, an image payload that
\* is no image, and an error reported together with a result
FailedExec ==
    [ran |-> TRUE, results |-> <<Raw("absent", FALSE, FALSE, TRUE)>>,
     error |-> "SyntaxError"]
TableExec ==
    [ran |-> TRUE, results |-> <<Raw("absent", FALSE, FALSE, TRUE)>>,
     error |-> ""]
SampleExecs ==
    { TableExec,
      [ran |-> TRUE, results |-> <<Raw("corrupt", FALSE, FALSE, FALSE)>>,
       error |-> ""],
      FailedExec }

\* exec.error of the sandbox: "" stands for None
ExecErrors == {"SyntaxError"}

\* Optional values
NoneText == [isNone |-> TRUE, content |-> <<>>]
SomeText(t) == [isNone |-> FALSE, content |-> t]
NoneList == [isNone |-> TRUE, list |-> <<>>]
SomeList(l) == [isNone |-> FALSE, list |-> l]
NoExecution == [ran |-> FALSE, results |-> <<>>, error |-> ""]

----------------------------------------------------------------------------
(* Result rendering, lines 170-187 *)

\* hasattr(result, 'png') and result.png
HasImagePayload(result) == result.png \notin {"absent", "empty"}

\* a variant that tests the tabular branch first
ClassifyTableFirst(result) ==
    IF result.frame THEN "Table"
    ELSE IF HasImagePayload(result) THEN "Image"
    ELSE IF result.figure THEN "StaticFigure"
    ELSE IF result.show THEN "InteractiveChart"
    ELSE "Generic"

\* the branch of the if/elif chain a result takes
Classify(result) ==
    IF HasImagePayload(result) THEN "Image"
    ELSE IF result.figure THEN "StaticFigure"
    ELSE IF result.show THEN "InteractiveChart"
    ELSE IF result.frame THEN "Table"
    ELSE "Generic"

\* base64.b64decode / Image.open raise on a payload that is no PNG
RenderRaises(result) == Classify(result) = "Image" /\ result.png = "corrupt"

NothingRendered == [classified |-> <<>>, shown |-> <<>>, raised |-> FALSE]

\* for result in code_results: the exception of one entry leaves the loop
RECURSIVE RenderFrom(_, _, _)
RenderFrom(results, i, acc) ==
    IF i > Len(results) THEN acc
    ELSE LET kind == Classify(results[i])
             seen == [acc EXCEPT !.classified = Append(@, kind)]
         IN  IF RenderRaises(results[i])
             THEN [seen EXCEPT !.raised = TRUE]
             ELSE RenderFrom(results, i + 1,
                     [seen EXCEPT !.shown =
                         Append(@, [kind |-> kind, of |-> results[i]])])

\* if code_results: (None and [] are both falsy)
RenderLoop(code_results) ==
    IF code_results.isNone \/ code_results.list = <<>>
    THEN NothingRendered
    ELSE RenderFrom(code_results.list, 1, NothingRendered)

----------------------------------------------------------------------------
(* The sandbox service *)

NoSandbox ==
    [state |-> "absent", owner |-> 0, kills |-> 0,
     writers |-> {}, runs |-> <<>>, late |-> FALSE]

\* a variant in which every request gets the same instance
SharedSandbox(sbs) == 1

\* Sandbox(api_key=...): a new instance for each call
NewSandbox(sbs) ==
    CHOOSE id \in DOMAIN sbs :
        /\ sbs[id].state = "absent"
        /\ \A j \in DOMAIN sbs : j < id => sbs[j].state # "absent"

SbCreate(sbs, id, r) ==
    [sbs EXCEPT ![id].state = "open", ![id].owner = r]

\* files.write by request r
SbWrite(sbs, id, r) ==
    [sbs EXCEPT ![id].writers = @ \cup {r},
                ![id].late = @ \/ sbs[id].state # "open"]

\* run_code by request r
SbRun(sbs, id, r, code) ==
    [sbs EXCEPT ![id].runs = Append(@, [by |-> r, code |-> code]),
                ![id].late = @ \/ sbs[id].state # "open"]

SbKill(sbs, id) ==
    [sbs EXCEPT ![id].state = "closed", ![id].kills = @ + 1]

\* a variant that closes the sandbox at the end of the block only
WithExitOnReturnOnly(sbs, id, how) ==
    IF how = "return" THEN SbKill(sbs, id) ELSE sbs

\* leaving the with block, by return or by exception: __exit__ runs
WithExit(sbs, id, how) == SbKill(sbs, id)

----------------------------------------------------------------------------
(* State *)

VARIABLES
    pc,               \* where each request stands.  In main: "idle",
                      \* "upload", "chat", "chatting" (inside
                      \* completions.create), "no_code", "display", "render",
                      \* "exit_return" / "exit_raise" (leaving the with
                      \* block), "left_return" / "left_raise" (__exit__ of
                      \* the sandbox has run), "done".  In code_interpret:
                      \* "run", "out_saved", "out_set", "err_saved",
                      \* "err_set" (entering the redirects), "running"
                      \* (inside run_code), "returned" / "raising",
                      \* "err_restored" / "err_unwound" (leaving the
                      \* redirects), then the source line the request is
                      \* at: "L31", "L35", "L39", "L41", and for a print
                      \* call of line n "Ln_value", "Ln_file", "Ln_write",
                      \* "Ln_end"
    deepseek_api_key, \* st.session_state.deepseek_api_key of the request
    e2b_api_key,      \* st.session_state.e2b_api_key of the request
    code_interpreter, \* the sandbox bound by the with statement, 0 if none
    llm_calls,        \* chat.completions.create calls made by the request
    llm_response,     \* response_message.content, once received
    python_code,      \* the code match_code_blocks extracted
    execution,        \* what run_code returned: results and error
    code_results,     \* what chat_with_llm returned as results
    ai_response,      \* the text st.write showed as "AI Response:"
    classified,       \* the branch taken for each result the loop reached
    shown,            \* the artifacts rendered, in order
    outcome,          \* "none", "blocked", "returned", "raised"
    diag,             \* st.error / st.warning messages of the request
    upload_error,     \* the class of the exception files.write raised for
                      \* the request: "" none, "Exception" (line 95 binds
                      \* it to error) or "BaseException" (one that is no
                      \* Exception, such as KeyboardInterrupt or SystemExit)
    sys_stdout,       \* what the process-wide sys.stdout is: 0 the real
                      \* stream, r the StringIO stdout_capture of request r
    sys_stderr,       \* the same for sys.stderr
    old_stdout,       \* the target redirect_stdout of the request saved
    old_stderr,       \* the target redirect_stderr of the request saved
    stdout_capture,   \* the text held by the request's stdout_capture
    stderr_capture,   \* the text held by the request's stderr_capture
    stdout,           \* the text the request wrote on the real sys.stdout
    stderr,           \* the text the request wrote on the real sys.stderr
    wrote,            \* the streams run_code of the request has written to
    value,            \* the getvalue() argument of the print call under way
    file,             \* the file= argument of the print call under way
    error_message,    \* the text line 40 formatted for exec.error
    sandboxes         \* the sandbox service: every instance ever created

vars == <<pc, deepseek_api_key, e2b_api_key, code_interpreter, llm_calls,
          llm_response, python_code, execution, code_results, ai_response,
          classified, shown, outcome, diag, upload_error, sys_stdout,
          sys_stderr,
          old_stdout, old_stderr, stdout_capture, stderr_capture, stdout,
          stderr, wrote, value, file, error_message, sandboxes>>

\* the session, the upload and the conversation with the model
session == <<deepseek_api_key, e2b_api_key, code_interpreter, upload_error,
             llm_calls, llm_response, python_code>>

\* what main shows
display == <<ai_response, classified, shown>>

\* the process-wide stream names and the targets the redirects kept
targets == <<sys_stdout, sys_stderr, old_stdout, old_stderr>>

\* the captures and what reached the real streams
texts == <<stdout_capture, stderr_capture, stdout, stderr>>

\* the process-wide streams and the locals of code_interpret
streams == <<targets, texts, wrote, value, file, error_message>>

KeysError == "Please enter both API keys in the sidebar."
UploadError == "Error during file upload"
NoCodeWarning == "Failed to match any Python code in model's response"
ErrorPrefix == "[Code Interpreter ERROR] "
StderrHeader == "[Code Interpreter Warnings/Errors]"
StdoutHeader == "[Code Interpreter Output]"

Init ==
    /\ pc = [r \in Reqs |-> "idle"]
    /\ deepseek_api_key = [r \in Reqs |-> ""]
    /\ e2b_api_key = [r \in Reqs |-> ""]
    /\ code_interpreter = [r \in Reqs |-> 0]
    /\ llm_calls = [r \in Reqs |-> 0]
    /\ llm_response = [r \in Reqs |-> NoneText]
    /\ python_code = [r \in Reqs |-> <<>>]
    /\ execution = [r \in Reqs |-> NoExecution]
    /\ code_results = [r \in Reqs |-> NoneList]
    /\ ai_response = [r \in Reqs |-> NoneText]
    /\ classified = [r \in Reqs |-> <<>>]
    /\ shown = [r \in Reqs |-> <<>>]
    /\ outcome = [r \in Reqs |-> "none"]
    /\ diag = [r \in Reqs |-> {}]
    /\ upload_error = [r \in Reqs |-> ""]
    /\ sys_stdout = 0
    /\ sys_stderr = 0
    /\ old_stdout = [r \in Reqs |-> 0]
    /\ old_stderr = [r \in Reqs |-> 0]
    /\ stdout_capture = [r \in Reqs |-> ""]
    /\ stderr_capture = [r \in Reqs |-> ""]
    /\ stdout = [r \in Reqs |-> ""]
    /\ stderr = [r \in Reqs |-> ""]
    /\ wrote = [r \in Reqs |-> {}]
    /\ value = [r \in Reqs |-> ""]
    /\ file = [r \in Reqs |-> 0]
    /\ error_message = [r \in Reqs |-> ""]
    /\ sandboxes = [id \in Reqs |-> NoSandbox]

----------------------------------------------------------------------------
(* main, upload_dataset and chat_with_llm *)

\* a variant of the key check that needs both keys to be absent
KeysMissingBoth(dk, ek) == dk = "" /\ ek = ""

\* not deepseek_api_key or not e2b_api_key
KeysMissing(dk, ek) == dk = "" \/ ek = ""

\* The request ends: its position and how it ended.
Ends(r, how) ==
    /\ pc' = [pc EXCEPT ![r] = "done"]
    /\ outcome' = [outcome EXCEPT ![r] = how]

\* The "Analyze" button: the key check, then the sandbox is created and the
\* with block is entered.  Creating the sandbox is a network call that can
\* raise, and then no sandbox is bound.
Analyze(r) ==
    /\ pc[r] = "idle"
    /\ \E dk \in Keys, ek \in Keys :
        /\ deepseek_api_key' = [deepseek_api_key EXCEPT ![r] = dk]
        /\ e2b_api_key' = [e2b_api_key EXCEPT ![r] = ek]
        /\ IF KeysMissing(dk, ek)
           THEN /\ diag' = [diag EXCEPT ![r] = @ \cup {KeysError}]
                /\ Ends(r, "blocked")
                /\ UNCHANGED <<code_interpreter, sandboxes>>
           ELSE \/ LET id == NewSandbox(sandboxes)
                   IN  /\ sandboxes' = SbCreate(sandboxes, id, r)
                       /\ code_interpreter' =
                              [code_interpreter EXCEPT ![r] = id]
                       /\ pc' = [pc EXCEPT ![r] = "upload"]
                       /\ UNCHANGED <<outcome, diag>>
                \/ /\ Ends(r, "raised")
                   /\ UNCHANGED <<code_interpreter, sandboxes, diag>>
    /\ UNCHANGED <<upload_error, llm_calls, llm_response, python_code,
                   execution,
                   code_results, display, streams>>

\* the classes of exception files.write can leave by: an Exception, or a
\* BaseException that is no Exception
RaisedClasses == {"Exception", "BaseException"}

\* line 95, except Exception as error: the clause takes an Exception and
\* lets every other BaseException pass
CaughtByExcept(cls) == cls = "Exception"

\* a variant of the except clause that does not re-raise
UploadFailedSwallowed(r) ==
    \E cls \in RaisedClasses :
        /\ upload_error' = [upload_error EXCEPT ![r] = cls]
        /\ IF CaughtByExcept(cls)
           THEN /\ diag' = [diag EXCEPT ![r] = @ \cup {UploadError}]
                /\ pc' = [pc EXCEPT ![r] = "chat"]
           ELSE /\ pc' = [pc EXCEPT ![r] = "exit_raise"]
                /\ UNCHANGED diag

\* lines 93-97, files.write raised.  An Exception is caught by line 95:
\* st.error, then raise error.  Any other BaseException is not caught:
\* lines 96-97 are skipped and nothing is shown.  Either way the exception
\* is on its way out of main through the with statement.
UploadFailed(r) ==
    \E cls \in RaisedClasses :
        /\ upload_error' = [upload_error EXCEPT ![r] = cls]
        /\ diag' = IF CaughtByExcept(cls)
                   THEN [diag EXCEPT ![r] = @ \cup {UploadError}]
                   ELSE diag
        /\ pc' = [pc EXCEPT ![r] = "exit_raise"]

\* upload_dataset(code_interpreter, uploaded_file)
UploadDataset(r) ==
    /\ pc[r] = "upload"
    /\ \/ /\ sandboxes' = SbWrite(sandboxes, code_interpreter[r], r)
          /\ pc' = [pc EXCEPT ![r] = "chat"]
          /\ UNCHANGED <<diag, upload_error>>
       \/ /\ UploadFailed(r)
          /\ UNCHANGED sandboxes
    /\ UNCHANGED <<deepseek_api_key, e2b_api_key, code_interpreter, llm_calls,
                   llm_response, python_code, execution, code_results,
                   display, outcome, streams>>

\* Lines 68-76: client.chat.completions.create is called; the request now
\* waits for the reply.
ChatRequest(r) ==
    /\ pc[r] = "chat"
    /\ llm_calls' = [llm_calls EXCEPT ![r] = @ + 1]
    /\ pc' = [pc EXCEPT ![r] = "chatting"]
    /\ UNCHANGED <<deepseek_api_key, e2b_api_key, code_interpreter,
                   upload_error, llm_response, python_code, execution,
                   code_results, display, outcome, diag, streams, sandboxes>>

\* a variant that runs whatever was extracted
HasCodeAlways(code) == TRUE

\* if python_code:
HasCode(code) == Truthy(code)

\* Lines 73-81: the completion call raises, or it returns the reply, the
\* code is extracted from it and tested.
ChatCompletion(r, replies) ==
    /\ pc[r] = "chatting"
    /\ \/ /\ pc' = [pc EXCEPT ![r] = "exit_raise"]
          /\ UNCHANGED <<llm_response, python_code>>
       \/ \E reply \in replies :
            LET code == match_code_blocks(reply)
            IN  /\ llm_response' = [llm_response EXCEPT ![r] = SomeText(reply)]
                /\ python_code' = [python_code EXCEPT ![r] = code]
                /\ pc' = [pc EXCEPT ![r] = IF HasCode(code) THEN "run"
                                           ELSE "no_code"]
    /\ UNCHANGED <<deepseek_api_key, e2b_api_key, code_interpreter,
                   upload_error, llm_calls, execution, code_results, display,
                   outcome, diag, streams, sandboxes>>

\* Lines 84-86 and 163: st.warning, return None, response_message.content
NoCodeFound(r) ==
    /\ pc[r] = "no_code"
    /\ diag' = [diag EXCEPT ![r] = @ \cup {NoCodeWarning}]
    /\ code_results' = [code_results EXCEPT ![r] = NoneList]
    /\ pc' = [pc EXCEPT ![r] = "display"]
    /\ UNCHANGED <<session, execution, display, outcome, streams, sandboxes>>

\* Lines 166-167: st.write("AI Response:"), st.write(llm_response)
MainWrite(r) ==
    /\ pc[r] = "display"
    /\ ai_response' = [ai_response EXCEPT
                          ![r] = SomeText(llm_response[r].content)]
    /\ pc' = [pc EXCEPT ![r] = "render"]
    /\ UNCHANGED <<session, execution, code_results, classified, shown,
                   outcome, diag, streams, sandboxes>>

\* Lines 170-187, one step for the test of line 170 when nothing is to be
\* rendered and one step for each iteration of the loop: the next result
\* is classified and rendered, or its rendering raises.  After the last
\* iteration the with block is left, by return or by that exception.
RenderResult(r) ==
    /\ pc[r] = "render"
    /\ LET loop == RenderLoop(code_results[r])
           i == Len(classified[r]) + 1
       IN  IF loop.classified = <<>>
           THEN /\ pc' = [pc EXCEPT ![r] = "exit_return"]
                /\ UNCHANGED <<classified, shown>>
           ELSE /\ classified' =
                      [classified EXCEPT ![r] = SubSeq(loop.classified, 1, i)]
                /\ shown' =
                      [shown EXCEPT
                          ![r] = IF i <= Len(loop.shown)
                                 THEN SubSeq(loop.shown, 1, i) ELSE loop.shown]
                /\ pc' = [pc EXCEPT
                             ![r] = IF i < Len(loop.classified) THEN "render"
                                    ELSE IF loop.raised THEN "exit_raise"
                                    ELSE "exit_return"]
    /\ UNCHANGED <<session, execution, code_results, ai_response, outcome,
                   diag, streams, sandboxes>>

\* The with statement of line 158 is left, by return or by exception:
\* Sandbox.__exit__ runs.
SandboxExit(r) ==
    /\ pc[r] \in {"exit_return", "exit_raise"}
    /\ sandboxes' = WithExit(sandboxes, code_interpreter[r],
                             IF pc[r] = "exit_return" THEN "return"
                             ELSE "raise")
    /\ pc' = [pc EXCEPT ![r] = IF @ = "exit_return" THEN "left_return"
                               ELSE "left_raise"]
    /\ UNCHANGED <<session, execution, code_results, display, outcome, diag,
                   streams>>

\* main returns, or the exception leaves main: the request has ended.
MainEnds(r) ==
    /\ pc[r] \in {"left_return", "left_raise"}
    /\ Ends(r, IF pc[r] = "left_return" THEN "returned" ELSE "raised")
    /\ UNCHANGED <<session, execution, code_results, display, diag, streams,
                   sandboxes>>

----------------------------------------------------------------------------
(* code_interpret *)

\* a variant that returns the results whatever exec.error is
code_interpret_keeps_results(exec) == SomeList(exec.results)

\* lines 39-42: None if exec.error, else exec.results
code_interpret_return(exec) ==
    IF exec.error # "" THEN NoneList ELSE SomeList(exec.results)

\* line 40: the text formatted for exec.error
code_interpret_error_line(exec) == ErrorPrefix \o exec.error

\* the streams run_code may write a line to while it runs
StdoutLine == "out: x\n"
StderrLine == "warn: x\n"
RunOutputs == {"out", "err"}
StderrOnly == {"err"}

\* what run_code may return: the results produced so far, an optional error
Execs(resultSeqs, errors) ==
    [ran : {TRUE}, results : resultSeqs, error : errors]

\* A stream pair: the captures of the requests and, per request, the text
\* it wrote on the real stream.  Text written by request r to target: 0 is
\* the real stream, q the capture of q.
WriteTo(st, target, r, text) ==
    IF target = 0
    THEN [st EXCEPT !.real[r] = @ \o text]
    ELSE [st EXCEPT !.capture[target] = @ \o text]

\* One write of request r to the target of stream "out" or "err".
PrintTo(s, target, r, text) ==
    IF s = "err"
    THEN LET st == WriteTo([capture |-> stderr_capture, real |-> stderr],
                           target, r, text)
         IN  /\ stderr_capture' = st.capture
             /\ stderr' = st.real
             /\ UNCHANGED <<stdout_capture, stdout>>
    ELSE LET st == WriteTo([capture |-> stdout_capture, real |-> stdout],
                           target, r, text)
         IN  /\ stdout_capture' = st.capture
             /\ stdout' = st.real
             /\ UNCHANGED <<stderr_capture, stderr>>

\* Line 26, the first statement of __enter__ of a redirect: the current
\* process-wide target is read and kept.  redirect_stdout is entered first,
\* redirect_stderr second.
RedirectSave(r) ==
    /\ pc[r] \in {"run", "out_set"}
    /\ IF pc[r] = "run"
       THEN /\ old_stdout' = [old_stdout EXCEPT ![r] = sys_stdout]
            /\ pc' = [pc EXCEPT ![r] = "out_saved"]
            /\ UNCHANGED old_stderr
       ELSE /\ old_stderr' = [old_stderr EXCEPT ![r] = sys_stderr]
            /\ pc' = [pc EXCEPT ![r] = "err_saved"]
            /\ UNCHANGED old_stdout
    /\ UNCHANGED <<session, execution, code_results, display, outcome, diag,
                   sys_stdout, sys_stderr, texts, wrote, value, file,
                   error_message, sandboxes>>

\* Line 26, the second statement of __enter__: the process-wide name is
\* bound to the capture of the request.
RedirectSet(r) ==
    /\ pc[r] \in {"out_saved", "err_saved"}
    /\ IF pc[r] = "out_saved"
       THEN /\ sys_stdout' = r
            /\ pc' = [pc EXCEPT ![r] = "out_set"]
            /\ UNCHANGED sys_stderr
       ELSE /\ sys_stderr' = r
            /\ pc' = [pc EXCEPT ![r] = "err_set"]
            /\ UNCHANGED sys_stdout
    /\ UNCHANGED <<session, execution, code_results, display, outcome, diag,
                   old_stdout, old_stderr, texts, wrote, value, file,
                   error_message, sandboxes>>

\* Line 29: run_code is called; the request now waits for the sandbox.
RunCodeEnter(r) ==
    /\ pc[r] = "err_set"
    /\ sandboxes' = SbRun(sandboxes, code_interpreter[r], r, python_code[r])
    /\ pc' = [pc EXCEPT ![r] = "running"]
    /\ UNCHANGED <<session, execution, code_results, display, outcome, diag,
                   streams>>

\* the target a process-wide stream name is bound to now
Sys(s) == IF s = "err" THEN sys_stderr ELSE sys_stdout

\* While run_code runs it may write a line to sys.stdout and a line to
\* sys.stderr, each whenever it happens and to whatever the name is bound to
\* at that moment.
RunCodeWrites(r, outputs) ==
    /\ pc[r] = "running"
    /\ \E s \in outputs \ wrote[r] :
         /\ wrote' = [wrote EXCEPT ![r] = @ \cup {s}]
         /\ PrintTo(s, Sys(s), r, IF s = "err" THEN StderrLine ELSE StdoutLine)
    /\ UNCHANGED <<pc, session, execution, code_results, display, outcome,
                   diag, targets, value, file, error_message, sandboxes>>

\* Line 29: run_code returns an execution or raises.
RunCodeReturn(r, execs) ==
    /\ pc[r] = "running"
    /\ \/ /\ pc' = [pc EXCEPT ![r] = "raising"]
          /\ UNCHANGED execution
       \/ \E exec \in execs :
            /\ execution' = [execution EXCEPT ![r] = exec]
            /\ pc' = [pc EXCEPT ![r] = "returned"]
    /\ UNCHANGED <<session, code_results, display, outcome, diag, streams,
                   sandboxes>>

\* The end of the with block of line 26, by return or by exception:
\* redirect_stderr puts back the target it kept, then redirect_stdout does.
\* After the second, an exception goes on through chat_with_llm to the with
\* statement of main.
RedirectRestore(r) ==
    /\ pc[r] \in {"returned", "raising", "err_restored", "err_unwound"}
    /\ IF pc[r] \in {"returned", "raising"}
       THEN /\ sys_stderr' = old_stderr[r]
            /\ pc' = [pc EXCEPT ![r] = IF @ = "returned" THEN "err_restored"
                                       ELSE "err_unwound"]
            /\ UNCHANGED sys_stdout
       ELSE /\ sys_stdout' = old_stdout[r]
            /\ pc' = [pc EXCEPT ![r] = IF @ = "err_restored" THEN "L31"
                                       ELSE "exit_raise"]
            /\ UNCHANGED sys_stderr
    /\ UNCHANGED <<session, execution, code_results, display, outcome, diag,
                   old_stdout, old_stderr, texts, wrote, value, file,
                   error_message, sandboxes>>

\* The print calls of code_interpret, by line, and the stream each names.
PrintLines == {"L32", "L33", "L36", "L37", "L40"}
PrintStream(line) == IF line \in {"L36", "L37"} THEN "out" ELSE "err"
At(line, stage) == line \o "_" \o stage

\* the line a request is at when it is inside a print call at that stage
LineAt(r, stage) == CHOOSE line \in PrintLines : pc[r] = At(line, stage)
InPrint(r, stage) == \E line \in PrintLines : pc[r] = At(line, stage)

\* Lines 31 and 35: if capture.getvalue():
PrintTest(r) ==
    /\ pc[r] \in {"L31", "L35"}
    /\ pc' = [pc EXCEPT
                 ![r] = IF pc[r] = "L31"
                        THEN IF stderr_capture[r] # "" THEN At("L32", "file")
                             ELSE "L35"
                        ELSE IF stdout_capture[r] # "" THEN At("L36", "file")
                             ELSE "L39"]
    /\ UNCHANGED <<session, execution, code_results, display, outcome, diag,
                   streams, sandboxes>>

\* Lines 33 and 37, the first argument of print: capture.getvalue()
PrintValue(r) ==
    /\ InPrint(r, "value")
    /\ LET line == LineAt(r, "value")
       IN  /\ value' = [value EXCEPT
                           ![r] = IF PrintStream(line) = "err"
                                  THEN stderr_capture[r]
                                  ELSE stdout_capture[r]]
           /\ pc' = [pc EXCEPT ![r] = At(line, "file")]
    /\ UNCHANGED <<session, execution, code_results, display, outcome, diag,
                   targets, texts, wrote, file, error_message, sandboxes>>

\* Lines 32, 33, 36, 37 and 40, the file argument of print: sys.stderr or
\* sys.stdout is read.
PrintFile(r) ==
    /\ InPrint(r, "file")
    /\ LET line == LineAt(r, "file")
       IN  /\ file' = [file EXCEPT ![r] = Sys(PrintStream(line))]
           /\ pc' = [pc EXCEPT ![r] = At(line, "write")]
    /\ UNCHANGED <<session, execution, code_results, display, outcome, diag,
                   targets, texts, wrote, value, error_message, sandboxes>>

\* the text a print call writes
PrintText(r, line) ==
    CASE line = "L32" -> StderrHeader
      [] line = "L36" -> StdoutHeader
      [] line = "L40" -> error_message[r]
      [] OTHER -> value[r]

\* print writes its text to the file it was given
PrintWrite(r) ==
    /\ InPrint(r, "write")
    /\ LET line == LineAt(r, "write")
       IN  /\ PrintTo(PrintStream(line), file[r], r, PrintText(r, line))
           /\ pc' = [pc EXCEPT ![r] = At(line, "end")]
    /\ UNCHANGED <<session, execution, code_results, display, outcome, diag,
                   targets, wrote, value, file, error_message, sandboxes>>

\* where a request goes after a print call
AfterPrint(line) ==
    CASE line = "L32" -> At("L33", "value")
      [] line = "L33" -> "L35"
      [] line = "L36" -> At("L37", "value")
      [] line = "L37" -> "L39"
      [] OTHER -> "L41"

\* print writes its end, a newline, to the same file
PrintEnd(r) ==
    /\ InPrint(r, "end")
    /\ LET line == LineAt(r, "end")
       IN  /\ PrintTo(PrintStream(line), file[r], r, "\n")
           /\ pc' = [pc EXCEPT ![r] = AfterPrint(line)]
    /\ UNCHANGED <<session, execution, code_results, display, outcome, diag,
                   targets, wrote, value, file, error_message, sandboxes>>

\* Lines 39-42 and 82-83: if exec.error the error line is formatted, and
\* after it is printed None is returned; else exec.results is returned.
CodeInterpretReport(r) ==
    /\ pc[r] \in {"L39", "L41"}
    /\ LET exec == execution[r]
       IN  IF pc[r] = "L39" /\ exec.error # ""
           THEN /\ error_message' =
                      [error_message EXCEPT
                          ![r] = code_interpret_error_line(exec)]
                /\ pc' = [pc EXCEPT ![r] = At("L40", "file")]
                /\ UNCHANGED code_results
           ELSE /\ code_results' =
                      [code_results EXCEPT ![r] = code_interpret_return(exec)]
                /\ pc' = [pc EXCEPT ![r] = "display"]
                /\ UNCHANGED error_message
    /\ UNCHANGED <<session, execution, display, outcome, diag, targets, texts,
                   wrote, value, file, sandboxes>>

----------------------------------------------------------------------------
(* Specifications *)

\* The steps of code_interpret of request r.
CodeInterpret(r, outputs, execs) ==
    \/ RedirectSave(r)
    \/ RedirectSet(r)
    \/ RunCodeEnter(r)
    \/ RunCodeWrites(r, outputs)
    \/ RunCodeReturn(r, execs)
    \/ RedirectRestore(r)
    \/ PrintTest(r)
    \/ PrintValue(r)
    \/ PrintFile(r)
    \/ PrintWrite(r)
    \/ PrintEnd(r)
    \/ CodeInterpretReport(r)

\* The steps of main of request r.
Main(r, replies, outputs, execs) ==
    \/ Analyze(r)
    \/ UploadDataset(r)
    \/ ChatRequest(r)
    \/ ChatCompletion(r, replies)
    \/ NoCodeFound(r)
    \/ CodeInterpret(r, outputs, execs)
    \/ MainWrite(r)
    \/ RenderResult(r)
    \/ SandboxExit(r)
    \/ MainEnds(r)

\* Concurrent requests.  Request 1 draws its reply and its execution from
\* the sample sets; the requests running beside it receive a reply with
\* code and an execution without error.  Every request may fail at each
\* call, and run_code of every request may write to sys.stderr.
Next ==
    \/ Main(1, SampleReplies, StderrOnly, SampleExecs)
    \/ \E r \in Reqs \ {1} :
          Main(r, {OneBlockReply}, StderrOnly, {TableExec})

Spec == Init /\ [][Next]_vars

\* One request, over every reply of the bounded reply set.
NextParse == Main(1, AllReplies, StderrOnly, Execs({<<>>}, {""}))

SpecParse == Init /\ [][NextParse]_vars

\* One request, over every result sequence of the bounded result set.
NextRender ==
    Main(1, SampleReplies, RunOutputs,
         Execs(AllResultSeqs, ExecErrors \cup {""}))

SpecRender == Init /\ [][NextRender]_vars

----------------------------------------------------------------------------
(* Vocabulary of the properties *)

Done(r) == pc[r] = "done"
Received(r) == ~llm_response[r].isNone
Reply(r) == llm_response[r].content

\* the sandbox bound to request r (only where code_interpreter[r] # 0)
SandboxOf(r) == sandboxes[code_interpreter[r]]

\* every run_code call request r made, on whichever sandbox
RunsBy(r) ==
    UNION {{<<id, i>> : i \in {j \in 1..Len(sandboxes[id].runs) :
                                  sandboxes[id].runs[j].by = r}} :
           id \in DOMAIN sandboxes}

\* Fenced code segments, stated on positions of the text: an opening marker
\* and the first closing marker after it.
OpenAts(s) == {i \in 1..Len(s) : s[i] = BT /\ MatchesAt(s, OpenFence, i)}
CloseAts(s) == {k \in 1..Len(s) : s[k] = NL /\ MatchesAt(s, CloseFence, k)}

\* The first segment of s: whether there is one, its text, and the text
\* after its closing marker.  It starts at the least opening marker that
\* has a closing marker after it and ends at the least such closing marker.
Segment(s) ==
    LET closes == CloseAts(s)
        opens == {i \in OpenAts(s) :
                     \E k \in closes : k >= i + Len(OpenFence)}
    IN  IF opens = {}
        THEN [has |-> FALSE, text |-> <<>>, rest |-> <<>>]
        ELSE LET open == CHOOSE i \in opens : \A j \in opens : i <= j
                 after == {k \in closes : k >= open + Len(OpenFence)}
                 close == CHOOSE k \in after : \A m \in after : k <= m
             IN  [has |-> TRUE,
                  text |-> SubSeq(s, open + Len(OpenFence), close - 1),
                  rest |-> SubSeq(s, close + Len(CloseFence), Len(s))]

Whitespace == {NL, " ", "\t", "\r"}
RECURSIVE LStrip(_)
LStrip(s) ==
    IF s # <<>> /\ Head(s) \in Whitespace THEN LStrip(Tail(s)) ELSE s
RECURSIVE RStrip(_)
RStrip(s) ==
    IF s # <<>> /\ s[Len(s)] \in Whitespace
    THEN RStrip(SubSeq(s, 1, Len(s) - 1)) ELSE s
Trim(s) == RStrip(LStrip(s))

\* the artifact kinds in their priority order, and when each applies
KindOrder == <<"Image", "StaticFigure", "InteractiveChart", "Table", "Generic">>
Applies(kind, result) ==
    CASE kind = "Image" -> result.png \in {"valid", "corrupt"}
      [] kind = "StaticFigure" -> result.figure
      [] kind = "InteractiveChart" -> result.show
      [] kind = "Table" -> result.frame
      [] kind = "Generic" -> TRUE
FirstApplicable(result) ==
    KindOrder[CHOOSE j \in DOMAIN KindOrder :
                 /\ Applies(KindOrder[j], result)
                 /\ \A m \in 1..(j - 1) : ~Applies(KindOrder[m], result)]

\* the sandbox reported an error for the code of request r
ExecFailed(r) == execution[r].ran /\ execution[r].error # ""

\* the positions of a request inside a print call of code_interpret
Printing == {At(line, stage) : line \in PrintLines,
                               stage \in {"value", "file", "write", "end"}}

\* the positions of a request that is leaving, or has left, the with block
LeavingByReturn == {"exit_return", "left_return", "done"}
LeavingByRaise == {"exit_raise", "left_raise", "done"}
Released == {"left_return", "left_raise", "done"}

\* the positions of a request whose run_code call has returned
AfterRunCode ==
    {"returned", "err_restored", "L31", "L35", "L39", "L41", "display",
     "render"} \cup Printing \cup LeavingByReturn

----------------------------------------------------------------------------
(* Properties *)

\* C1: every sandbox a request acquired is released exactly once by the time
\* the request ends, on every exit path; it is open and unreleased while the
\* request is inside the with block, and it is never released twice.
C1_ReleasedExactlyOnce ==
    /\ \A id \in DOMAIN sandboxes :
         LET sb == sandboxes[id]
         IN  sb.state # "absent" =>
               /\ sb.kills <= 1
               /\ pc[sb.owner] \in Released
                     => (sb.kills = 1 /\ sb.state = "closed")
               /\ pc[sb.owner] \notin Released
                     => (sb.kills = 0 /\ sb.state = "open")
    /\ \A r \in Reqs :
         code_interpreter[r] # 0 =>
            SandboxOf(r).state # "absent" /\ SandboxOf(r).owner = r

\* C1 witness: one request left by an exception of the rendering loop and
\* another by a failed upload, each with its sandbox released once.
C1_Witness ==
    \E r1 \in Reqs, r2 \in Reqs :
        /\ Done(r1) /\ outcome[r1] = "raised" /\ classified[r1] # <<>>
        /\ SandboxOf(r1).kills = 1
        /\ Done(r2) /\ UploadError \in diag[r2]
        /\ code_interpreter[r2] # 0 /\ SandboxOf(r2).kills = 1

\* C2: when match_code_blocks returned the empty string for the reply, no
\* code is ever run in that request; the request goes through the warning,
\* the display of the raw reply and the release of its sandbox and nowhere
\* else; once past the warning the "no code" warning is emitted and no
\* results are returned, and once past the display the raw reply is shown;
\* nothing is rendered and the request ends by return.
C2_NoCodeNoExecution ==
    \A r \in Reqs :
        (Received(r) /\ python_code[r] = <<>>) =>
            /\ ~execution[r].ran
            /\ RunsBy(r) = {}
            /\ pc[r] \in {"no_code", "display", "render"} \cup LeavingByReturn
            /\ code_results[r] = NoneList
            /\ classified[r] = <<>> /\ shown[r] = <<>>
            /\ pc[r] # "no_code" => NoCodeWarning \in diag[r]
            /\ pc[r] \notin {"no_code", "display"}
                  => ai_response[r] = llm_response[r]
            /\ Done(r) => outcome[r] = "returned"

\* C2 witness: a reply holding a bare fence, from which no code is extracted.
C2_Witness ==
    \E r \in Reqs :
        /\ Received(r) /\ python_code[r] = <<>>
        /\ \E i \in 1..Len(Reply(r)) : MatchesAt(Reply(r), Fence, i)
        /\ NoCodeWarning \in diag[r]
        /\ Done(r) /\ ai_response[r] = llm_response[r]

\* the dataset write of request r failed: files.write raised
UploadRaised(r) == upload_error[r] # ""

\* what a request whose dataset write failed does: it is on its way out of
\* the with block by the exception, or has ended by it, with no model call
\* made, no reply received, no code run and nothing written to its sandbox
TerminatesAfterUpload(r) ==
    /\ pc[r] \in LeavingByRaise
    /\ Done(r) => outcome[r] = "raised"
    /\ llm_calls[r] = 0
    /\ ~Received(r)
    /\ ~execution[r].ran
    /\ RunsBy(r) = {}
    /\ SandboxOf(r).writers = {}

C4_ExecutionErrorYieldsNoArtifacts ==
    \A r \in Reqs :
        ExecFailed(r) =>
            /\ pc[r] \in AfterRunCode
            /\ code_results[r] = NoneList
            /\ classified[r] = <<>> /\ shown[r] = <<>>
            /\ Done(r) =>
                  /\ outcome[r] = "returned"
                  /\ error_message[r] = ErrorPrefix \o execution[r].error
                  /\ Len(error_message[r]) > Len(ErrorPrefix)

\* C4 witness: an error reported together with results produced before it.
C4_Witness ==
    \E r \in Reqs :
        /\ ExecFailed(r) /\ execution[r].results # <<>>
        /\ Done(r)

\* C5: the kind chosen for each result the loop reached is the first that
\* applies in the order Image, StaticFigure, InteractiveChart, Table,
\* Generic; a result with an image payload and tabular data is an Image.
C5_ClassificationPriority ==
    \A r \in Reqs :
        \A i \in 1..Len(classified[r]) :
            LET result == code_results[r].list[i]
            IN  /\ classified[r][i] = FirstApplicable(result)
                /\ (Applies("Image", result) /\ Applies("Table", result))
                      => classified[r][i] = "Image"

\* C5 witness: a rendered result with both an image payload and tabular data.
C5_Witness ==
    \E r \in Reqs :
        \E i \in 1..Len(shown[r]) :
            /\ shown[r][i].of.png = "valid" /\ shown[r][i].of.frame
            /\ shown[r][i].kind = "Image"

\* C6: for every result sequence a successful execution returned, each entry
\* yields exactly one artifact, in order, none dropped (also after an entry
\* whose decoding fails).
C6_EveryResultRendered ==
    \A r \in Reqs :
        (Done(r) /\ execution[r].ran /\ execution[r].error = "") =>
            /\ Len(shown[r]) = Len(execution[r].results)
            /\ \A i \in 1..Len(shown[r]) :
                  shown[r][i].of = execution[r].results[i]

\* C7 as stated: the extracted code is the text of the first fenced segment
\* with leading and trailing whitespace trimmed, and empty without a segment.
C7_TrimmedFirstSegment ==
    \A r \in Reqs :
        Received(r) =>
            LET first == Segment(Reply(r))
            IN  python_code[r] = IF first.has THEN Trim(first.text) ELSE <<>>

\* C7 amended: the extracted code is exactly the text between the first
\* opening marker (three backticks, python, newline) and the first closing
\* marker (newline, three backticks) after it, with nothing else trimmed;
\* it is empty when the reply holds no such pair.
C7_ExactFirstSegment ==
    \A r \in Reqs :
        Received(r) =>
            LET first == Segment(Reply(r))
            IN  python_code[r] = IF first.has THEN first.text ELSE <<>>

\* C7 witness: a segment whose text starts or ends with whitespace.
C7_Witness ==
    \E r \in Reqs :
        /\ Received(r)
        /\ LET first == Segment(Reply(r))
           IN  /\ first.has
               /\ Trim(first.text) # first.text
               /\ Trim(first.text) # <<>>

\* C8: a request runs code at most once, in its own sandbox, and the code
\* it runs is the content of the first fenced segment of the reply, also
\* when the reply holds further segments.
C8_OnlyFirstSegmentRuns ==
    \A r \in Reqs :
        /\ Cardinality(RunsBy(r)) <= 1
        /\ \A run \in RunsBy(r) :
              /\ run[1] = code_interpreter[r]
              /\ Received(r)
              /\ LET first == Segment(Reply(r))
                 IN  /\ first.has
                     /\ sandboxes[run[1]].runs[run[2]].code = first.text

\* C8 witness: code was run for a reply with two segments of different text.
C8_Witness ==
    \E r \in Reqs :
        /\ RunsBy(r) # {} /\ Done(r)
        /\ LET first == Segment(Reply(r))
               second == Segment(first.rest)
           IN  first.has /\ second.has /\ second.text # first.text

\* C9: an analyze action with a key absent is blocked with the message and
\* creates no sandbox, writes no dataset, calls no model and runs no code.
C9_MissingKeysBlock ==
    \A r \in Reqs :
        (pc[r] # "idle" /\ (deepseek_api_key[r] = "" \/ e2b_api_key[r] = "")) =>
            /\ Done(r) /\ outcome[r] = "blocked"
            /\ KeysError \in diag[r]
            /\ code_interpreter[r] = 0
            /\ \A id \in DOMAIN sandboxes :
                  sandboxes[id].owner # r /\ r \notin sandboxes[id].writers
            /\ RunsBy(r) = {}
            /\ llm_calls[r] = 0 /\ ~execution[r].ran

\* C9 witness: a request blocked with only the sandbox key absent.
C9_Witness ==
    \E r \in Reqs :
        /\ Done(r) /\ outcome[r] = "blocked"
        /\ deepseek_api_key[r] # "" /\ e2b_api_key[r] = ""

\* C10: under any interleaving each request uses the sandbox it acquired:
\* no instance is bound to two requests, written or run by a request other
\* than its owner, or used after it was released.
C10_SandboxPerRequest ==
    /\ \A r \in Reqs :
         code_interpreter[r] # 0 => SandboxOf(r).owner = r
    /\ \A r1 \in Reqs, r2 \in Reqs :
         (r1 # r2 /\ code_interpreter[r1] # 0 /\ code_interpreter[r2] # 0)
            => code_interpreter[r1] # code_interpreter[r2]
    /\ \A id \in DOMAIN sandboxes :
         LET sb == sandboxes[id]
         IN  /\ sb.writers \subseteq {sb.owner}
             /\ \A i \in 1..Len(sb.runs) : sb.runs[i].by = sb.owner
             /\ ~sb.late

\* C10 witness: two requests in flight together, each with its dataset
\* written to its own open sandbox and its code running in it.
C10_Witness ==
    \E r1 \in Reqs, r2 \in Reqs :
        /\ r1 # r2
        /\ pc[r1] = "running" /\ pc[r2] = "running"
        /\ Len(SandboxOf(r1).runs) = 1 /\ Len(SandboxOf(r2).runs) = 1
        /\ SandboxOf(r1).writers = {r1} /\ SandboxOf(r2).writers = {r2}
        /\ SandboxOf(r1).state = "open" /\ SandboxOf(r2).state = "open"

=============================================================================
